---------------------------- MODULE Spec2Model ----------------------------
(***************************************************************************)
(* Newton-Raphson root finder of newton's_method.py.                       *)
(*                                                                         *)
(* Numbers.  A Python float or complex is a record [re, im, cx]: re and im *)
(* are integers counting grid units of 1/Scale, cx is TRUE when the Python *)
(* value is of type complex.  Every arithmetic result is rounded to the    *)
(* nearest grid point, as a float operation rounds to the nearest float.   *)
(* Thresholds (tol, derivative_threshold, 1e-10) are grid units as well.   *)
(* The grid keeps the state space of a call of newtons_method small.       *)
(*                                                                         *)
(* A session of main runs on decimal floats instead, records [man, exp, cx]*)
(* that stand for man * 10^exp with a mantissa of four digits, so that the *)
(* program's own constants 1e-6 and 1e-12 are numbers of the model.  The   *)
(* arithmetic operators serve both kinds and never mix them.               *)
(*                                                                         *)
(* Logarithms are exact on a third kind, records [n, d, p10, pe, pl] that  *)
(* stand for (n/d) * 10^p10 * e^pe * ln(10)^pl: products and quotients of  *)
(* such numbers, and the logarithms of the powers of 10 and of e, are of   *)
(* this kind again.                                                        *)
(***************************************************************************)
EXTENDS Integers, Sequences, FiniteSets, TLC

(* ------------------------------ bounds -------------------------------- *)

\* grid units per 1.0
Scale == 4
\* initial guesses are the grid points of -GuessBound .. GuessBound
GuessBound == 4
\* tol ranges over -1 .. MaxTol grid units
MaxTol == 2
\* derivative_threshold ranges over -1 .. MaxThreshold grid units
MaxThreshold == 2
\* max_iter ranges over -1 .. MaxIterBound
MaxIterBound == 3
\* the history counters prior and restarts saturate here
MaxHistory == 3
\* logarithms are taken at 10^k and e^k for k up to MaxPower
MaxPower == 4

(* ----------------------------- numbers -------------------------------- *)

Real(n) == [re |-> n, im |-> 0, cx |-> FALSE]

Complex(r, i) == [re |-> r, im |-> i, cx |-> TRUE]

Magnitude(n) == IF n < 0 THEN -n ELSE n

\* n / d rounded to the nearest integer (halves away from zero), d # 0
RoundDiv(n, d) ==
    LET q == (2 * Magnitude(n) + Magnitude(d)) \div (2 * Magnitude(d))
    IN  IF (n < 0) = (d < 0) THEN q ELSE -q

\* (n/d) * 10^p10 * e^pe * ln(10)^pl, with n/d in lowest terms, d > 0
Product(n, d, p10, pe, pl) == [n |-> n, d |-> d, p10 |-> p10, pe |-> pe, pl |-> pl]

IsProduct(a) == "pl" \in DOMAIN a

RECURSIVE GCD(_, _)
GCD(a, b) == IF b = 0 THEN a ELSE GCD(b, a % b)

\* the same number in lowest terms; zero is Product(0, 1, 0, 0, 0)
Reduce(n, d, p10, pe, pl) ==
    LET g == GCD(Magnitude(n), Magnitude(d))
        sign == IF d < 0 THEN -1 ELSE 1
    IN  IF n = 0 THEN Product(0, 1, 0, 0, 0)
        ELSE Product(sign * (n \div g), sign * (d \div g), p10, pe, pl)

\* the integer k; 10 is held as a power of ten
Integer(k) == IF k = 10 THEN Product(1, 1, 1, 0, 0) ELSE Reduce(k, 1, 0, 0, 0)

\* numpy.log at 10^k or e^k
NaturalLog(a) ==
    IF a.pe = 0 THEN Reduce(a.p10, 1, 0, 0, 1) ELSE Reduce(a.pe, 1, 0, 0, 0)

\* numpy.log10 at 10^k or e^k
CommonLog(a) ==
    IF a.pe = 0 THEN Reduce(a.p10, 1, 0, 0, 0) ELSE Reduce(a.pe, 1, 0, 0, -1)

\* a decimal float: man * 10^exp
Decimal(m, e) == [man |-> m, exp |-> e, cx |-> FALSE]

IsDecimal(a) == "man" \in DOMAIN a

RECURSIVE Normalise(_, _)
\* m * 10^e rounded to a mantissa of four digits; zero is Decimal(0, 0)
Normalise(m, e) ==
    IF m = 0 THEN Decimal(0, 0)
    ELSE IF Magnitude(m) >= 10000 THEN Normalise(RoundDiv(m, 10), e + 1)
    ELSE IF Magnitude(m) < 1000 THEN Normalise(10 * m, e - 1)
    ELSE Decimal(m, e)

RECURSIVE PowerOfTen(_)
PowerOfTen(d) == IF d = 0 THEN 1 ELSE 10 * PowerOfTen(d - 1)

\* a + b on decimal floats: a summand more than five places below the
\* other is rounded away
DecimalAdd(a, b) ==
    LET hi == IF a.exp >= b.exp THEN a ELSE b
        lo == IF a.exp >= b.exp THEN b ELSE a
        d  == hi.exp - lo.exp
    IN  IF a.man = 0 THEN b
        ELSE IF b.man = 0 THEN a
        ELSE IF d > 5 THEN hi
        ELSE Normalise(hi.man * PowerOfTen(d) + lo.man, lo.exp)

Add(a, b) ==
    IF IsDecimal(a) THEN DecimalAdd(a, b)
    ELSE [re |-> a.re + b.re, im |-> a.im + b.im, cx |-> a.cx \/ b.cx]

Sub(a, b) ==
    IF IsDecimal(a) THEN DecimalAdd(a, Decimal(-b.man, b.exp))
    ELSE [re |-> a.re - b.re, im |-> a.im - b.im, cx |-> a.cx \/ b.cx]

Mul(a, b) ==
    IF IsProduct(a)
    THEN Reduce(a.n * b.n, a.d * b.d, a.p10 + b.p10, a.pe + b.pe, a.pl + b.pl)
    ELSE IF IsDecimal(a) THEN Normalise(a.man * b.man, a.exp + b.exp)
    ELSE [re |-> RoundDiv(a.re * b.re - a.im * b.im, Scale),
          im |-> RoundDiv(a.re * b.im + a.im * b.re, Scale),
          cx |-> a.cx \/ b.cx]

IsZero(a) == IF IsDecimal(a) THEN a.man = 0 ELSE a.re = 0 /\ a.im = 0

\* a / b for b # 0
Div(a, b) ==
    IF IsProduct(a)
    THEN Reduce(a.n * b.d, a.d * b.n, a.p10 - b.p10, a.pe - b.pe, a.pl - b.pl)
    ELSE IF IsDecimal(a)
    THEN Normalise(RoundDiv(a.man * 10000, b.man), a.exp - b.exp - 4)
    ELSE LET den == b.re * b.re + b.im * b.im
         IN  [re |-> RoundDiv((a.re * b.re + a.im * b.im) * Scale, den),
              im |-> RoundDiv((a.im * b.re - a.re * b.im) * Scale, den),
              cx |-> a.cx \/ b.cx]

\* abs(a) < t, for a float or complex a and a float t
AbsLess(a, t) ==
    IF IsDecimal(a)
    THEN /\ t.man > 0
         /\ \/ a.man = 0
            \/ a.exp < t.exp
            \/ a.exp = t.exp /\ Magnitude(a.man) < t.man
    ELSE t > 0 /\ a.re * a.re + a.im * a.im < t * t

\* the number k in the arithmetic x is of
Number(k, x) ==
    IF IsProduct(x) THEN Integer(k)
    ELSE IF IsDecimal(x) THEN Normalise(k, 0)
    ELSE Real(k * Scale)

\* base=None of my_log
NoBase == [none |-> TRUE]

\* mutant: the default branch and the branch of base 10 are swapped
MyLog_BaseTenByDefault(x, base) ==
    IF base = NoBase THEN CommonLog(x)
    ELSE IF base = Integer(10) THEN NaturalLog(x)
    ELSE Div(NaturalLog(x), NaturalLog(base))

\* my_log(x, base=None)
MyLog(x, base) ==
    IF base = NoBase THEN NaturalLog(x)
    ELSE IF base = Integer(10) THEN CommonLog(x)
    ELSE Div(NaturalLog(x), NaturalLog(base))

(* ---------------------- the numeric callables ------------------------- *)

\* 1e-10 of main's display rule, in grid units
NegligibleImag == 2

\* The formulas a session is run on.  "x-1-dI" and "x-1-nI" have a complex
\* constant term: d is an imaginary part below 1e-10, n one that is not.
Formulas == {"x^2-2", "x^2+1", "x^3", "x^3-3", "5", "x-1-dI", "x-1-nI"}

ConstantTerm(name) ==
    IF name = "x-1-dI" THEN Complex(Scale, NegligibleImag - 1)
    ELSE Complex(Scale, NegligibleImag)

\* f(x): the callable lambdify builds from the parsed formula
Func(name, x) ==
    CASE name = "x^2-2"  -> Sub(Mul(x, x), Number(2, x))
      [] name = "x^2+1"  -> Add(Mul(x, x), Number(1, x))
      [] name = "x^3"    -> Mul(Mul(x, x), x)
      [] name = "x^3-3"  -> Sub(Mul(Mul(x, x), x), Number(3, x))
      [] name = "5"      -> Number(5, x)
      [] name = "log(x)" -> Div(MyLog(x, NoBase), MyLog(Number(10, x), NoBase))
      [] name = "ln(x)"  -> MyLog(x, NoBase)
      [] OTHER           -> Sub(x, ConstantTerm(name))

\* f'(x): the callable lambdify builds from sp.diff of the formula
DFunc(name, x) ==
    CASE name = "x^2-2"  -> Mul(Number(2, x), x)
      [] name = "x^2+1"  -> Mul(Number(2, x), x)
      [] name = "x^3"    -> Mul(Number(3, x), Mul(x, x))
      [] name = "x^3-3"  -> Mul(Number(3, x), Mul(x, x))
      [] name = "5"      -> Number(0, x)
      [] name = "log(x)" -> Div(Number(1, x), Mul(x, MyLog(Number(10, x), NoBase)))
      [] name = "ln(x)"  -> Div(Number(1, x), x)
      [] OTHER           -> Number(1, x)

(* -------------------- float(new_guess_str) ---------------------------- *)

\* a reply typed at the prompt, as its sequence of characters
Replies ==
    { <<>>, <<"a">>, <<"0">>, <<"1">>, <<"-", "2">>, <<" ", "1", " ">>,
      <<"0", ".", "5">>, <<"1", ".">>, <<"-">>, <<"1", " ", "1">> }

Digits == {"0", "1", "2", "3", "4", "5", "6", "7", "8", "9"}

DigitValue(c) ==
    CASE c = "0" -> 0 [] c = "1" -> 1 [] c = "2" -> 2 [] c = "3" -> 3
      [] c = "4" -> 4 [] c = "5" -> 5 [] c = "6" -> 6 [] c = "7" -> 7
      [] c = "8" -> 8 [] OTHER -> 9

RECURSIVE Strip(_)
\* str.strip(): float() ignores leading and trailing blanks
Strip(s) ==
    IF s = <<>> THEN s
    ELSE IF Head(s) = " " THEN Strip(Tail(s))
    ELSE IF s[Len(s)] = " " THEN Strip(SubSeq(s, 1, Len(s) - 1))
    ELSE s

RECURSIVE Mantissa(_, _, _, _)
\* digits [. digits] read left to right: <<numerator, denominator, digits seen>>,
\* or <<>> on a character float() does not accept
Mantissa(s, num, den, frac) ==
    IF s = <<>> THEN <<num, den>>
    ELSE IF Head(s) \in Digits
         THEN Mantissa(Tail(s), 10 * num + DigitValue(Head(s)),
                       IF frac THEN 10 * den ELSE den, frac)
    ELSE IF Head(s) = "." /\ ~frac THEN Mantissa(Tail(s), num, den, TRUE)
    ELSE <<>>

\* the exception float() raises on text that is no number
ValueError == [raised |-> "ValueError"]

\* float(s): the float the text denotes, as a decimal float or on the
\* grid, or ValueError
Float(s, decimal) ==
    LET t    == Strip(s)
        neg  == t # <<>> /\ Head(t) = "-"
        body == IF neg THEN Tail(t) ELSE t
        m    == Mantissa(body, 0, 1, FALSE)
        hasDigit == \E k \in 1 .. Len(body) : body[k] \in Digits
        sign == IF neg THEN -1 ELSE 1
    IN  IF ~hasDigit \/ m = <<>> THEN ValueError
        ELSE IF decimal THEN Div(Normalise(sign * m[1], 0), Normalise(m[2], 0))
        ELSE Real(sign * RoundDiv(m[1] * Scale, m[2]))

\* float(s) on the grid
ParseFloat(s) == Float(s, FALSE)

\* int(s): blanks around, an optional sign, then digits only
ParseInt(s) ==
    LET t    == Strip(s)
        neg  == t # <<>> /\ Head(t) = "-"
        body == IF neg THEN Tail(t) ELSE t
        m    == Mantissa(body, 0, 1, FALSE)
    IN  IF body = <<>> \/ \E k \in 1 .. Len(body) : body[k] \notin Digits
        THEN ValueError
        ELSE [int |-> (IF neg THEN -1 ELSE 1) * m[1]]

(* ------------------------ parse_expr(input_expr) ---------------------- *)

\* A formula text, as the sequence of its tokens.
Texts ==
    { <<"x", "^", "2", "-", "2">>, <<"x", "**", "2", "-", "2">>,
      <<"x", "x", "-", "2">>, <<"x", "^", "3">>, <<"(", "5", ")">>,
      <<"x", "+", "y">>,
      <<>>, <<"x", "^">>, <<"(", "x">>, <<"x", ")">>, <<"x", "+", "*", "3">> }

\* names: x and e are bound by local_dict, any other one is made a symbol
\* by the standard transformations (auto_symbol)
Names == {"x", "e", "y"}

\* formulas of the two logarithms that local_dict binds
LogTexts ==
    { <<"log", "(", "x", ")">>, <<"log", "x">>, <<"ln", "(", "x", ")">>, <<"ln", "x">> }

\* the callables of local_dict
Functions == {"log", "ln"}

SyntaxError == <<"SyntaxError">>

RECURSIVE ParseSum(_), ParseProduct(_), ParsePower(_), ParseAtom(_)

\* each reads one phrase off the front of the tokens and yields the rest,
\* or SyntaxError

\* a number, a name or a bracketed sum
ParseAtom(t) ==
    IF t = <<>> THEN SyntaxError
    ELSE IF Head(t) \in Digits \cup Names THEN Tail(t)
    ELSE IF Head(t) \in Functions THEN ParseAtom(Tail(t))
    ELSE IF Head(t) = "("
         THEN LET r == ParseSum(Tail(t))
              IN  IF r # SyntaxError /\ r # <<>> /\ Head(r) = ")"
                  THEN Tail(r) ELSE SyntaxError
    ELSE SyntaxError

\* atom [^ power]: convert_xor reads ^ as **
ParsePower(t) ==
    LET r == ParseAtom(t)
    IN  IF r # SyntaxError /\ r # <<>> /\ Head(r) \in {"^", "**"}
        THEN ParsePower(Tail(r)) ELSE r

\* power {[*] power}: implicit_multiplication_application reads adjacent
\* factors as a product
ParseProduct(t) ==
    LET r == ParsePower(t)
    IN  IF r = SyntaxError \/ r = <<>> THEN r
        ELSE IF Head(r) = "*" THEN ParseProduct(Tail(r))
        ELSE IF Head(r) \in Digits \cup Names \cup Functions \cup {"("} THEN ParseProduct(r)
        ELSE r

\* [-] product {(+|-) product}
ParseSum(t) ==
    LET r == ParseProduct(IF t # <<>> /\ Head(t) = "-" THEN Tail(t) ELSE t)
    IN  IF r # SyntaxError /\ r # <<>> /\ Head(r) \in {"+", "-"}
        THEN ParseSum(Tail(r)) ELSE r

\* the symbols of a formula besides x and the constant e
FreeSymbols(text) == {text[k] : k \in 1 .. Len(text)} \cap (Names \ {"x", "e"})

\* the expression sympy builds from a well-formed text, by the name its
\* callables go by in Func and DFunc
Expression(text) ==
    CASE text \in {<<"x", "^", "2", "-", "2">>, <<"x", "**", "2", "-", "2">>,
                   <<"x", "x", "-", "2">>} -> "x^2-2"
      [] text = <<"x", "^", "3">> -> "x^3"
      [] text = <<"(", "5", ")">> -> "5"
      [] text = <<"x", "+", "y">> -> "x+y"
      [] text \in LogTexts /\ Head(text) = "log" -> "log(x)"
      [] text \in LogTexts /\ Head(text) = "ln" -> "ln(x)"

\* parse_expr(input_expr, transformations, local_dict): the expression, or
\* the exception of a text that is no expression
ParseExpr(text) ==
    IF ParseSum(text) = <<>> THEN [expr |-> Expression(text)]
    ELSE [raised |-> "SyntaxError"]

(* ------------------------------ state --------------------------------- *)

VARIABLES
    func,                  \* the callable f, by its formula
    dfunc,                 \* the callable f', by the formula it derives
    tol,                   \* tolerance
    max_iter,              \* iteration cap of one attempt
    derivative_threshold,  \* below this |f'| counts as nearly zero
    guess,                 \* current iterate
    new_guess_str,         \* the last reply read at the prompt of line 60
    i,                     \* loop variable of the for loop: its next value
    pc,                    \* where control is
    outcome,               \* how newtons_method ended, Running until then
    result,                \* value newtons_method returned
    printed,               \* what main reported
    steps,                 \* history: Newton steps taken in the current attempt
    prior,                 \* history: Newton steps of earlier attempts (saturating)
    restarts,              \* history: replacement guesses accepted (saturating)
    evals,                 \* history: evaluations of f and f' in the current attempt
    x0,                    \* the initial guess handed to newtons_method
    input_expr,            \* main: the formula text read at line 85
    x0_input,              \* main: the reply read at line 121
    tol_input,             \* main: the reply read at line 127
    max_iter_input         \* main: the reply read at line 133

vars == <<func, dfunc, tol, max_iter, derivative_threshold, guess,
          new_guess_str, i, pc, outcome, result, printed, steps, prior, restarts,
          evals, x0, input_expr, x0_input, tol_input, max_iter_input>>

config == <<func, dfunc, tol, max_iter, derivative_threshold>>

history == <<steps, prior, restarts, evals>>

\* what main read and what it handed over
session == <<x0, input_expr, x0_input, tol_input, max_iter_input>>

\* Python's None
None == [none |-> TRUE]

\* new_guess_str before the prompt of line 60 was ever answered
NoReply == <<"unbound">>

\* outcome while newtons_method has not ended
Running == "Running"

Outcomes == {"Converged", "MaxIterationsReached", "Aborted"}

Saturate(n) == IF n > MaxHistory THEN MaxHistory ELSE n

\* the call newtons_method(func, dfunc, x0, tol, max_iter, derivative_threshold)
Init ==
    /\ func \in Formulas
    /\ dfunc = func
    /\ tol \in -1 .. MaxTol
    /\ max_iter \in -1 .. MaxIterBound
    /\ derivative_threshold \in -1 .. MaxThreshold
    /\ x0 \in {Real(n) : n \in -GuessBound .. GuessBound}
    /\ guess = x0
    /\ new_guess_str = NoReply
    /\ i = 0
    /\ pc = "Iterating"
    /\ outcome = Running
    /\ result = None
    /\ printed = None
    /\ steps = 0
    /\ prior = 0
    /\ restarts = 0
    /\ evals = 0
    /\ input_expr = NoReply
    /\ x0_input = NoReply
    /\ tol_input = NoReply
    /\ max_iter_input = NoReply

(* ------------------------- newtons_method ----------------------------- *)

f_val == Func(func, guess)

fprime_val == DFunc(dfunc, guess)

\* mutant: the test looks at f(guess) instead of f'(guess)
NearlyZero_TestsFunction == AbsLess(f_val, derivative_threshold)

\* the test of line 58
NearlyZero == AbsLess(fprime_val, derivative_threshold)

x_new == Sub(guess, Div(f_val, fprime_val))

\* mutant: range(max_iter + 1)
InLoop_Inclusive == pc = "Iterating" /\ i <= max_iter

\* the for loop has another iteration to run
InLoop == pc = "Iterating" /\ i < max_iter

\* f(guess) and f'(guess) return: no name of the formula is unbound
Evaluates == FreeSymbols(input_expr) = {}

\* line 54 on a formula with a symbol besides x: the callable looks the
\* name up and raises NameError
RaiseNameError ==
    /\ InLoop
    /\ ~Evaluates
    /\ pc' = "Raised"
    /\ UNCHANGED <<config, session, guess, new_guess_str, i, outcome, result, printed, history>>

\* an iteration whose derivative is nearly zero: prompt for another guess
Degenerate ==
    /\ InLoop
    /\ Evaluates
    /\ NearlyZero
    /\ pc' = "DegenerateDerivative"
    /\ evals' = evals + 1
    /\ UNCHANGED <<config, session, guess, new_guess_str, i, outcome, result, printed, steps, prior, restarts>>

\* mutant: the loop counter runs on across the restart
Restart_KeepsCounter(s) ==
    /\ pc = "DegenerateDerivative"
    /\ new_guess_str' = s
    /\ ParseFloat(s) # ValueError
    /\ guess' = Float(s, IsDecimal(guess))
    /\ pc' = "Iterating"
    /\ steps' = 0
    /\ prior' = Saturate(prior + steps)
    /\ restarts' = Saturate(restarts + 1)
    /\ evals' = 0
    /\ UNCHANGED <<config, session, i, outcome, result, printed>>

\* the reply parses: restart the for loop from it
Restart(s) ==
    /\ pc = "DegenerateDerivative"
    /\ new_guess_str' = s
    /\ ParseFloat(s) # ValueError
    /\ guess' = Float(s, IsDecimal(guess))
    /\ i' = 0
    /\ pc' = "Iterating"
    /\ steps' = 0
    /\ prior' = Saturate(prior + steps)
    /\ restarts' = Saturate(restarts + 1)
    /\ evals' = 0
    /\ UNCHANGED <<config, session, outcome, result, printed>>

\* mutant: the ValueError of float() is not caught
Abort_Raises(s) ==
    /\ pc = "DegenerateDerivative"
    /\ new_guess_str' = s
    /\ ParseFloat(s) = ValueError
    /\ pc' = "Raised"
    /\ UNCHANGED <<config, session, guess, i, outcome, result, printed, history>>

\* the reply does not parse: return None
Abort(s) ==
    /\ pc = "DegenerateDerivative"
    /\ new_guess_str' = s
    /\ ParseFloat(s) = ValueError
    /\ outcome' = "Aborted"
    /\ result' = None
    /\ pc' = "Returned"
    /\ UNCHANGED <<config, session, guess, i, printed, history>>

\* line 68 with a zero derivative that passed the test of line 58: the
\* division of two Python numbers raises ZeroDivisionError
DivideByZero ==
    /\ InLoop
    /\ Evaluates
    /\ ~NearlyZero
    /\ IsZero(fprime_val)
    /\ pc' = "Raised"
    /\ evals' = evals + 1
    /\ UNCHANGED <<config, session, guess, new_guess_str, i, outcome, result, printed, steps, prior, restarts>>

\* mutant: the iterate before the step is returned, with the 0-based index
Converge_ReturnsGuess ==
    /\ InLoop
    /\ Evaluates
    /\ ~NearlyZero
    /\ ~IsZero(fprime_val)
    /\ AbsLess(Sub(x_new, guess), tol)
    /\ outcome' = "Converged"
    /\ result' = [root |-> guess, iterations |-> i]
    /\ pc' = "Returned"
    /\ steps' = steps + 1
    /\ evals' = evals + 1
    /\ UNCHANGED <<config, session, guess, new_guess_str, i, printed, prior, restarts>>

\* a Newton step that meets the tolerance
Converge ==
    /\ InLoop
    /\ Evaluates
    /\ ~NearlyZero
    /\ ~IsZero(fprime_val)
    /\ AbsLess(Sub(x_new, guess), tol)
    /\ outcome' = "Converged"
    /\ result' = [root |-> x_new, iterations |-> i + 1]
    /\ pc' = "Returned"
    /\ steps' = steps + 1
    /\ evals' = evals + 1
    /\ UNCHANGED <<config, session, guess, new_guess_str, i, printed, prior, restarts>>

\* mutant: the step counts the cap down instead of the counter up
Advance_CountsDownCap ==
    /\ InLoop
    /\ Evaluates
    /\ ~NearlyZero
    /\ ~IsZero(fprime_val)
    /\ ~AbsLess(Sub(x_new, guess), tol)
    /\ guess' = x_new
    /\ max_iter' = max_iter - 1
    /\ steps' = steps + 1
    /\ evals' = evals + 1
    /\ UNCHANGED <<func, dfunc, tol, derivative_threshold, session, new_guess_str, i,
                   pc, outcome, result, printed, prior, restarts>>

\* a Newton step that does not
Advance ==
    /\ InLoop
    /\ Evaluates
    /\ ~NearlyZero
    /\ ~IsZero(fprime_val)
    /\ ~AbsLess(Sub(x_new, guess), tol)
    /\ guess' = x_new
    /\ i' = i + 1
    /\ steps' = steps + 1
    /\ evals' = evals + 1
    /\ UNCHANGED <<config, session, new_guess_str, pc, outcome, result, printed, prior, restarts>>

\* range(max_iter) is used up: the else branch of the for loop
Exhaust ==
    /\ pc = "Iterating"
    /\ ~(i < max_iter)
    /\ outcome' = "MaxIterationsReached"
    /\ result' = [root |-> guess, iterations |-> max_iter]
    /\ pc' = "Returned"
    /\ UNCHANGED <<config, session, guess, new_guess_str, i, printed, history>>

(* ------------------------------- main --------------------------------- *)

\* mutant: an imaginary part of exactly 1e-10 is dropped as well
Display_Inclusive(root) ==
    IF root.cx /\ AbsLess(Real(root.im), NegligibleImag + 1)
    THEN Real(root.re)
    ELSE root

\* lines 146-147
Display(root) ==
    IF root.cx /\ AbsLess(Real(root.im), NegligibleImag)
    THEN Real(root.re)
    ELSE root

\* lines 143-150
Report ==
    /\ pc = "Returned"
    /\ result # None
    /\ printed' = [root |-> Display(result.root), iterations |-> result.iterations]
    /\ pc' = "Printed"
    /\ UNCHANGED <<config, session, guess, new_guess_str, i, outcome, result, history>>

\* lines 140-141
Quit ==
    /\ pc = "Returned"
    /\ result = None
    /\ pc' = "Exited"
    /\ UNCHANGED <<config, session, guess, new_guess_str, i, outcome, result, printed, history>>

\* no formula yet
Unbound == "unbound"

\* main is started: nothing is read or bound yet
SessionInit ==
    /\ pc = "ReadFormula"
    /\ func = Unbound
    /\ dfunc = Unbound
    /\ tol = None
    /\ max_iter = None
    /\ derivative_threshold = None
    /\ x0 = None
    /\ guess = None
    /\ input_expr = NoReply
    /\ x0_input = NoReply
    /\ tol_input = NoReply
    /\ max_iter_input = NoReply
    /\ new_guess_str = NoReply
    /\ i = 0
    /\ outcome = Running
    /\ result = None
    /\ printed = None
    /\ steps = 0
    /\ prior = 0
    /\ restarts = 0
    /\ evals = 0

\* mutant: the exception is swallowed and main goes on to the next prompt
RejectFormula_FallsThrough(text) ==
    /\ pc = "ReadFormula"
    /\ input_expr' = text
    /\ "raised" \in DOMAIN ParseExpr(text)
    /\ pc' = "ReadGuess"
    /\ UNCHANGED <<config, x0, x0_input, tol_input, max_iter_input, guess,
                   new_guess_str, i, outcome, result, printed, history>>

\* lines 85-106: the formula text does not parse
RejectFormula(text) ==
    /\ pc = "ReadFormula"
    /\ input_expr' = text
    /\ "raised" \in DOMAIN ParseExpr(text)
    /\ pc' = "InvalidFunction"
    /\ UNCHANGED <<config, x0, x0_input, tol_input, max_iter_input, guess,
                   new_guess_str, i, outcome, result, printed, history>>

\* lines 85-118: the formula parses; differentiate and compile f and f'
CompileFormula(text) ==
    /\ pc = "ReadFormula"
    /\ input_expr' = text
    /\ "expr" \in DOMAIN ParseExpr(text)
    /\ func' = ParseExpr(text).expr
    /\ dfunc' = ParseExpr(text).expr
    /\ pc' = "ReadGuess"
    /\ UNCHANGED <<tol, max_iter, derivative_threshold, x0, x0_input, tol_input,
                   max_iter_input, guess, new_guess_str, i, outcome, result,
                   printed, history>>

\* mutant: a bad initial guess falls back to 0.0, as a bad tolerance does
\* to its default
RejectGuess_DefaultsToZero(s) ==
    /\ pc = "ReadGuess"
    /\ x0_input' = s
    /\ Float(s, TRUE) = ValueError
    /\ x0' = Decimal(0, 0)
    /\ pc' = "ReadTolerance"
    /\ UNCHANGED <<config, input_expr, tol_input, max_iter_input, guess,
                   new_guess_str, i, outcome, result, printed, history>>

\* lines 120-124: the initial guess is no number
RejectGuess(s) ==
    /\ pc = "ReadGuess"
    /\ x0_input' = s
    /\ Float(s, TRUE) = ValueError
    /\ pc' = "InvalidGuess"
    /\ UNCHANGED <<config, x0, input_expr, tol_input, max_iter_input, guess,
                   new_guess_str, i, outcome, result, printed, history>>

\* lines 120-121
ReadGuess(s) ==
    /\ pc = "ReadGuess"
    /\ x0_input' = s
    /\ Float(s, TRUE) # ValueError
    /\ x0' = Float(s, TRUE)
    /\ pc' = "ReadTolerance"
    /\ UNCHANGED <<config, input_expr, tol_input, max_iter_input, guess,
                   new_guess_str, i, outcome, result, printed, history>>

\* replies to the prompts for the tolerance and the iteration cap
Settings == { <<>>, <<" ">>, <<"a">>, <<"0">>, <<"1">>, <<"-", "2">>, <<"1", ".">> }

\* 1e-6 of lines 128 and 130
DefaultTol == Decimal(1000, -9)

\* 100 of lines 134 and 136
DefaultMaxIter == 100

\* mutant: 1e-10, the bound of the display rule, in place of 1e-12
DefaultThreshold_Coarse == Decimal(1000, -13)

\* 1e-12 of line 26
DefaultThreshold == Decimal(1000, -15)

\* mutant: an unparseable tolerance ends the session like a bad guess
ReadTolerance_Strict(s) ==
    /\ pc = "ReadTolerance"
    /\ tol_input' = s
    /\ IF Strip(s) # <<>> /\ Float(s, TRUE) = ValueError
       THEN pc' = "InvalidGuess" /\ tol' = tol
       ELSE /\ tol' = IF Strip(s) # <<>> THEN Float(s, TRUE) ELSE DefaultTol
            /\ pc' = "ReadMaxIter"
    /\ UNCHANGED <<func, dfunc, max_iter, derivative_threshold, x0, input_expr,
                   x0_input, max_iter_input, guess, new_guess_str, i, outcome,
                   result, printed, history>>

\* lines 126-130
ReadTolerance(s) ==
    /\ pc = "ReadTolerance"
    /\ tol_input' = s
    /\ tol' = IF Strip(s) # <<>> /\ Float(s, TRUE) # ValueError
              THEN Float(s, TRUE)
              ELSE DefaultTol
    /\ pc' = "ReadMaxIter"
    /\ UNCHANGED <<func, dfunc, max_iter, derivative_threshold, x0, input_expr,
                   x0_input, max_iter_input, guess, new_guess_str, i, outcome,
                   result, printed, history>>

\* lines 132-136
ReadMaxIterations(s) ==
    /\ pc = "ReadMaxIter"
    /\ max_iter_input' = s
    /\ max_iter' = IF Strip(s) # <<>> /\ ParseInt(s) # ValueError
                   THEN ParseInt(s).int
                   ELSE DefaultMaxIter
    /\ pc' = "Call"
    /\ UNCHANGED <<func, dfunc, tol, derivative_threshold, x0, input_expr,
                   x0_input, tol_input, guess, new_guess_str, i, outcome,
                   result, printed, history>>

\* line 138 and line 50: newtons_method(f, f_prime, x0, tol, max_iter)
Call ==
    /\ pc = "Call"
    /\ derivative_threshold' = DefaultThreshold
    /\ guess' = x0
    /\ i' = 0
    /\ pc' = "Iterating"
    /\ UNCHANGED <<func, dfunc, tol, max_iter, session, new_guess_str, outcome,
                   result, printed, history>>

Next ==
    \/ Degenerate
    \/ \E s \in Replies : Restart(s)
    \/ \E s \in Replies : Abort(s)
    \/ DivideByZero
    \/ Converge
    \/ Advance
    \/ Exhaust
    \/ Report
    \/ Quit

Spec == Init /\ [][Next]_vars

\* the interpreter keeps running the loop, and the prompt is answered
FairSpec == Spec /\ WF_vars(Next)

\* the points logarithms are taken at: 10^k and e^k
Powers ==
    {Product(1, 1, k, 0, 0) : k \in 0 .. MaxPower}
        \cup {Product(1, 1, 0, k, 0) : k \in 1 .. MaxPower}

\* lines 54-55 at the guess x, for the callables of a formula of LogTexts
Evaluate(x) ==
    /\ pc = "ReadGuess"
    /\ guess' = x
    /\ result' = [f_val |-> Func(func, x), fprime_val |-> DFunc(dfunc, x)]
    /\ evals' = evals + 1
    /\ pc' = "Evaluated"
    /\ UNCHANGED <<config, session, new_guess_str, i, outcome, printed, steps,
                   prior, restarts>>

\* a call my_log(x, base), base 1 apart (its logarithm is zero)
CallMyLog(x, base) ==
    /\ pc = "ReadFormula"
    /\ base # Product(1, 1, 0, 0, 0)
    /\ result' = [x |-> x, base |-> base, value |-> MyLog(x, base)]
    /\ pc' = "Logged"
    /\ UNCHANGED <<config, session, guess, new_guess_str, i, outcome, printed,
                   history>>

\* the logarithms of a session: formulas of log and ln compiled and
\* evaluated, and my_log called on its own
LogNext ==
    \/ \E text \in LogTexts : CompileFormula(text)
    \/ \E x \in Powers : Evaluate(x)
    \/ \E x \in Powers, base \in Powers \cup {NoBase} : CallMyLog(x, base)

LogSpec == SessionInit /\ [][LogNext]_vars

\* A session of main.  The division error is left out: derivative_threshold
\* is DefaultThreshold, and a zero derivative is below it.
SessionNext ==
    \/ \E text \in Texts : RejectFormula(text)
    \/ \E text \in Texts : CompileFormula(text)
    \/ \E s \in Replies : RejectGuess(s)
    \/ \E s \in Replies : ReadGuess(s)
    \/ \E s \in Settings : ReadTolerance(s)
    \/ \E s \in Settings : ReadMaxIterations(s)
    \/ Call
    \/ RaiseNameError
    \/ Degenerate
    \/ \E s \in Replies : Restart(s)
    \/ \E s \in Replies : Abort(s)
    \/ Converge
    \/ Advance
    \/ Exhaust
    \/ Report
    \/ Quit

SessionSpec == SessionInit /\ [][SessionNext]_vars

(* ------------------------------ claims -------------------------------- *)

\* the iteration at hand takes a Newton step that meets the tolerance
ConvergingIteration ==
    /\ InLoop
    /\ ~NearlyZero
    /\ ~IsZero(fprime_val)
    /\ AbsLess(Sub(Sub(guess, Div(f_val, fprime_val)), guess), tol)

\* C1: newtons_method ends in Converged exactly in an iteration whose
\* derivative is not nearly zero and whose step x_new - guess is below tol;
\* it returns that x_new and the number of Newton steps of the attempt,
\* the converging one included.
C1_ConvergedAtFirstSmallStep ==
    [][ /\ (outcome # "Converged" /\ outcome' = "Converged") <=> ConvergingIteration
        /\ ConvergingIteration =>
              /\ result' = [root |-> Sub(guess, Div(f_val, fprime_val)),
                            iterations |-> steps + 1]
              /\ steps' = steps + 1
              /\ pc' = "Returned" ]_vars

\* Converged in a second attempt, after two Newton steps of that attempt
C1_Witness ==
    /\ outcome = "Converged"
    /\ restarts >= 1
    /\ prior >= 1
    /\ result.iterations = 2
    /\ result.root # guess

\* C2: an iteration whose derivative is nearly zero takes no step and asks
\* for a replacement guess; a reply that float() rejects ends the solver in
\* Aborted, which returns None (no root, no count) and raises nothing.
C2_DegenerateAsksThenAborts ==
    /\ [][ /\ (InLoop /\ NearlyZero) =>
                (pc' = "DegenerateDerivative" /\ guess' = guess /\ outcome' = Running)
           /\ (pc = "DegenerateDerivative" /\ ParseFloat(new_guess_str') = ValueError) =>
                (outcome' = "Aborted" /\ result' = None /\ pc' = "Returned") ]_vars
    /\ [](outcome = "Aborted" =>
            (result = None /\ printed = None /\ pc \in {"Returned", "Exited"}))

\* aborted at the second prompt, which came up in the middle of an attempt
C2_Witness ==
    /\ outcome = "Aborted"
    /\ pc = "Exited"
    /\ restarts >= 1
    /\ steps >= 1

\* C3: a reply that parses becomes the guess and the loop counter restarts at
\* zero; the attempt it starts can run its full max_iter steps whatever the
\* earlier attempts took, and a reported count is the step count of the last
\* attempt alone.
C3_RestartFromReplacement ==
    /\ [][ (pc = "DegenerateDerivative" /\ ParseFloat(new_guess_str') # ValueError) =>
             /\ guess' = ParseFloat(new_guess_str')
             /\ i' = 0
             /\ pc' = "Iterating"
             /\ outcome' = Running ]_vars
    /\ []((restarts >= 1 /\ pc = "Iterating") => i = steps)
    /\ []((restarts >= 1 /\ outcome \in {"Converged", "MaxIterationsReached"}) =>
            result.iterations = steps)
    /\ []((restarts >= 1 /\ outcome = "MaxIterationsReached") => steps = max_iter)

\* the cap is reached in a second attempt that ran all its max_iter steps
\* although the first attempt had taken steps already
C3_Witness ==
    /\ outcome = "MaxIterationsReached"
    /\ restarts >= 1
    /\ prior >= 1
    /\ max_iter >= 2
    /\ steps = max_iter

\* C4: newtons_method ends in MaxIterationsReached exactly when an attempt
\* has taken max_iter Newton steps, none converging and none degenerate; it
\* returns the iterate of the last step and the count max_iter, and a nearly
\* zero derivative in the last iteration leads to the prompt instead.
C4_MaxIterationsAfterAllSteps ==
    /\ outcome = "MaxIterationsReached" =>
         (steps = max_iter /\ result = [root |-> guess, iterations |-> max_iter])
    /\ pc = "DegenerateDerivative" => outcome = Running

\* C5: a configuration with a non-positive tol, derivative_threshold or
\* max_iter is rejected before any iteration runs and never yields an
\* outcome.
C5_InvalidConfigurationRejected ==
    (tol <= 0 \/ derivative_threshold <= 0 \/ max_iter <= 0) =>
        (outcome = Running /\ steps = 0 /\ pc \in {"Iterating", "Raised"})

\* C6: with a positive max_iter the solver ends in Converged,
\* MaxIterationsReached or Aborted unless it is restarted after a nearly zero
\* derivative again and again without end: whenever it has come to a halt,
\* one of the three outcomes has been produced.
C6_EndsUnlessRestartedForever ==
    (max_iter > 0 /\ pc \in {"Raised", "Returned", "Printed", "Exited"}) =>
        outcome \in Outcomes

\* C7: with a derivative that is nearly zero at every guess and replies that
\* always parse, the solver never ends: it reports no outcome at all.
C7_AlwaysDegenerateNeverEnds ==
    ( /\ dfunc = "5"
      /\ derivative_threshold > 0
      /\ (new_guess_str = NoReply \/ ParseFloat(new_guess_str) # ValueError) ) =>
        outcome = Running

\* C9: for Converged and MaxIterationsReached alike, main reports the real
\* part alone of a complex root whose imaginary part is below 1e-10 in
\* magnitude, reports any other root as returned, and reports the returned
\* iteration count.
C9_NegligibleImaginaryDropped ==
    pc = "Printed" =>
        /\ outcome \in {"Converged", "MaxIterationsReached"}
        /\ printed.iterations = result.iterations
        /\ ( /\ result.root.cx
             /\ result.root.im < NegligibleImag
             /\ result.root.im > -NegligibleImag ) =>
                printed.root = [re |-> result.root.re, im |-> 0, cx |-> FALSE]
        /\ ( \/ ~result.root.cx
             \/ result.root.im >= NegligibleImag
             \/ result.root.im <= -NegligibleImag ) =>
                printed.root = result.root

\* the cap was reached on a complex iterate with a small imaginary part,
\* reported as a real number
C9_Witness ==
    /\ pc = "Printed"
    /\ outcome = "MaxIterationsReached"
    /\ result.root.cx
    /\ result.root.im # 0
    /\ ~printed.root.cx
    /\ printed.iterations = max_iter

\* C10: a run of the solver that has ended has produced one of Converged,
\* MaxIterationsReached and Aborted, and Aborted carries neither a root nor
\* an iteration count.
C10_EveryEndIsOneOutcome ==
    /\ pc \notin {"Iterating", "DegenerateDerivative"} => outcome \in Outcomes
    /\ outcome = "Aborted" => (result = None /\ printed = None)


(* ---------------------- order of test and division -------------------- *)

\* C15: in every iteration the test of line 58 comes before the quotient of
\* line 68: a Newton step is taken, and a division attempted, only from a
\* guess where |f'(guess)| >= derivative_threshold; so with a positive
\* derivative_threshold no run raises the division error; and a degenerate
\* iteration leaves guess alone until the reply replaces it.
C15_DegeneracyTestedBeforeDivision ==
    /\ [][ /\ (steps' = steps + 1 \/ (pc # "Raised" /\ pc' = "Raised")) =>
                ~AbsLess(DFunc(dfunc, guess), derivative_threshold)
           /\ (pc = "Iterating" /\ i < max_iter
                 /\ AbsLess(DFunc(dfunc, guess), derivative_threshold)) =>
                (guess' = guess /\ steps' = steps /\ pc' = "DegenerateDerivative")
           /\ pc = "DegenerateDerivative" =>
                (guess' = guess \/ guess' = ParseFloat(new_guess_str')) ]_vars
    /\ [](derivative_threshold > 0 => pc # "Raised")

\* steps, a zero derivative caught by a positive threshold, a replacement,
\* and a root from it
C15_Witness ==
    /\ derivative_threshold > 0
    /\ restarts >= 1
    /\ prior >= 1
    /\ guess # x0
    /\ outcome = "Converged"

(* --------------------------- the loop counter ------------------------- *)

\* C16: an iteration starts only with the counter in 0 .. max_iter - 1, so
\* one attempt evaluates f and f' at most once per value of that range; a
\* Converged count lies in 1 .. max_iter and a MaxIterationsReached count
\* is max_iter.
C16_CounterWithinCap ==
    /\ [][evals' = evals + 1 => i \in 0 .. max_iter - 1]_vars
    /\ [](evals <= Cardinality(0 .. max_iter - 1))
    /\ [](pc = "Iterating" => (i >= 0 /\ (i <= max_iter \/ i = 0)))
    /\ [](outcome = "Converged" => result.iterations \in 1 .. max_iter)
    /\ [](outcome = "MaxIterationsReached" => result.iterations = max_iter)

\* a second attempt that converges in the last iteration the cap allows
C16_Witness ==
    /\ outcome = "Converged"
    /\ restarts >= 1
    /\ max_iter >= 2
    /\ evals = max_iter
    /\ result.iterations = max_iter

(* ------------------------------ the frame ----------------------------- *)

\* C17: while the solver iterates or waits for a replacement, f, f',
\* tolerance, max_iter and derivative_threshold never change; a Newton step
\* that does not end the run changes the guess and the counter only; a
\* restart changes the guess, to the replacement, and the counter, to zero.
C17_ConfigurationFixed ==
    [][ /\ pc \in {"Iterating", "DegenerateDerivative"} => config' = config
        /\ (steps' = steps + 1 /\ outcome' = Running) =>
             /\ i' = i + 1
             /\ UNCHANGED <<x0, new_guess_str, pc, outcome, result, printed>>
        /\ (pc = "DegenerateDerivative" /\ pc' = "Iterating") =>
             /\ i' = 0
             /\ guess' = ParseFloat(new_guess_str')
             /\ UNCHANGED <<x0, outcome, result, printed>> ]_vars

\* steps before and after a restart, still iterating
C17_Witness ==
    /\ pc = "Iterating"
    /\ restarts >= 1
    /\ prior >= 1
    /\ steps >= 1
    /\ i < max_iter

(* ------------------------------ sessions ------------------------------ *)

\* main has called newtons_method
Called == pc \in {"Iterating", "DegenerateDerivative", "Returned", "Raised", "Printed", "Exited"}

\* C11: a formula text that does not parse ends the session on the spot and
\* for good: f and f' stay unbound, no guess, tolerance or iteration cap has
\* been asked for, newtons_method has not run, and nothing follows.
C11_ParseFailureEndsSession ==
    /\ [][ /\ (pc = "ReadFormula" /\ ParseSum(input_expr') # <<>>) => pc' = "InvalidFunction"
           /\ pc # "InvalidFunction" ]_vars
    /\ [](pc = "InvalidFunction" =>
             /\ ParseSum(input_expr) # <<>>
             /\ func = Unbound /\ dfunc = Unbound
             /\ x0_input = NoReply /\ tol_input = NoReply /\ max_iter_input = NoReply
             /\ x0 = None /\ guess = None
             /\ evals = 0 /\ steps = 0 /\ outcome = Running /\ printed = None)

\* a text with an operator left open was typed and the session is over
C11_Witness == pc = "InvalidFunction" /\ input_expr = <<"x", "^">>

\* C13: a formula with a symbol besides x and e is turned down as invalid
\* input: nothing is compiled from it and the solver never evaluates it.
C13_FreeSymbolRejected ==
    (pc # "ReadFormula" /\ FreeSymbols(input_expr) # {}) =>
        (pc = "InvalidFunction" /\ func = Unbound /\ dfunc = Unbound)

\* the session of x^3 started at 0.0 with every default
CubicRun ==
    /\ Called
    /\ func = "x^3"
    /\ x0 = Decimal(0, 0)
    /\ tol = DefaultTol
    /\ max_iter = DefaultMaxIter
    /\ derivative_threshold = DefaultThreshold

\* the run of x^3: degenerate at once although f(0) = 0, and after the
\* replacement 1.0 neither degenerate again nor at the cap, up to a
\* Converged root that is rootClose
CubicRunEnds(rootClose) ==
    CubicRun =>
        /\ IsZero(Func(func, x0))
        /\ restarts = 0 =>
             /\ steps = 0
             /\ outcome \in {Running, "Aborted"}
             /\ pc \in {"Iterating", "DegenerateDerivative", "Returned", "Exited"}
             /\ pc = "Iterating" => AbsLess(DFunc(dfunc, guess), derivative_threshold)
        /\ (restarts = 1 /\ Float(new_guess_str, TRUE) = Decimal(1000, -3)) =>
             /\ outcome \in {Running, "Converged"}
             /\ pc \in {"Iterating", "Returned", "Printed"}
             /\ pc = "Iterating" =>
                  /\ i < max_iter
                  /\ ~AbsLess(DFunc(dfunc, guess), derivative_threshold)
             /\ outcome = "Converged" => (result.iterations < max_iter /\ rootClose)

\* C14 (as stated): for x^3 from 0.0 with the defaults the first iteration
\* is degenerate without a step; from the replacement 1.0 the run ends
\* Converged, with no second degeneracy and below the cap, and the root
\* returned is within tolerance of the true root 0.
C14_CubicRootWithinTolerance == CubicRunEnds(AbsLess(result.root, tol))

\* C14 (amended): the same run, but the root returned is within twice the
\* tolerance of 0 and not within the tolerance: what the tolerance bounds
\* is f at the root and the last step, which is half the root.
C14_CubicRootWithinTwiceTolerance ==
    CubicRunEnds(/\ AbsLess(result.root, Mul(Number(2, tol), tol))
                 /\ ~AbsLess(result.root, tol)
                 /\ AbsLess(Func(func, result.root), tol)
                 /\ AbsLess(Sub(result.root, guess), tol))

\* the run was restarted from 1.0, converged and was reported
C14_Witness ==
    /\ CubicRun
    /\ restarts = 1
    /\ Float(new_guess_str, TRUE) = Decimal(1000, -3)
    /\ outcome = "Converged"
    /\ pc = "Printed"

\* C18: a blank or unparseable reply gives the tolerance 1e-6 and the cap
\* 100, a reply that parses is used as given, derivative_threshold is 1e-12
\* throughout, and neither prompt ends the session whatever the reply.
C18_ConfigurationAlwaysDefined ==
    /\ [][ /\ pc = "ReadTolerance" => pc' = "ReadMaxIter"
           /\ pc = "ReadMaxIter" => pc' = "Call"
           /\ pc = "Call" => pc' = "Iterating" ]_vars
    /\ [](Called =>
             /\ derivative_threshold = Decimal(1000, -15)
             /\ IF Strip(tol_input) = <<>> \/ Float(tol_input, TRUE) = ValueError
                THEN tol = Decimal(1000, -9)
                ELSE tol = Float(tol_input, TRUE)
             /\ IF Strip(max_iter_input) = <<>> \/ ParseInt(max_iter_input) = ValueError
                THEN max_iter = 100
                ELSE max_iter = ParseInt(max_iter_input).int)

\* a session that ran to its report on both defaults, one from a reply
\* that is no number and one from a reply of blanks
C18_Witness ==
    /\ pc = "Printed"
    /\ tol_input = <<"a">>
    /\ max_iter_input = <<" ">>
    /\ tol = DefaultTol
    /\ max_iter = DefaultMaxIter

\* C19: an initial guess that is no number ends the session on the spot and
\* for good: no initial guess is bound, neither the tolerance nor the cap
\* has been asked for and newtons_method has not run.
C19_BadInitialGuessEndsSession ==
    /\ [][ /\ (pc = "ReadGuess" /\ Float(x0_input', TRUE) = ValueError) => pc' = "InvalidGuess"
           /\ pc # "InvalidGuess" ]_vars
    /\ [](pc = "InvalidGuess" =>
             /\ Float(x0_input, TRUE) = ValueError
             /\ x0 = None /\ guess = None
             /\ tol_input = NoReply /\ max_iter_input = NoReply
             /\ tol = None /\ max_iter = None
             /\ evals = 0 /\ steps = 0 /\ outcome = Running /\ printed = None)

\* a formula was compiled, then the guess typed was no number
C19_Witness == pc = "InvalidGuess" /\ func = "x^3" /\ x0_input = <<"1", " ", "1">>

(* ----------------------------- logarithms ---------------------------- *)

\* b^v for b a power of 10 or of e and v a logarithm to undo: a rational,
\* or a rational times or over ln(10); Product(0, 1, 0, 0, 0) where the
\* power is none of 10^k and e^k
Raise(b, v) ==
    LET k == (IF b.pe = 0 THEN b.p10 ELSE b.pe) * v.n
        whole == v.n # 0 /\ k % v.d = 0
    IN  IF v.n = 0 THEN Product(1, 1, 0, 0, 0)
        ELSE IF ~whole THEN Product(0, 1, 0, 0, 0)
        ELSE IF v.pl = 0
             THEN IF b.pe = 0 THEN Product(1, 1, k \div v.d, 0, 0)
                  ELSE Product(1, 1, 0, k \div v.d, 0)
        ELSE IF v.pl = 1 /\ b.pe # 0 THEN Product(1, 1, k \div v.d, 0, 0)
        ELSE IF v.pl = -1 /\ b.pe = 0 THEN Product(1, 1, 0, k \div v.d, 0)
        ELSE Product(0, 1, 0, 0, 0)

Ten == Product(1, 1, 1, 0, 0)

Euler == Product(1, 1, 0, 1, 0)

\* C12: log is the logarithm to base 10 and ln the natural logarithm, in f
\* and in f': 10 to the power f(x) is x for a formula of log, e to the power
\* f(x) is x for one of ln, and f'(x) is 1/(x ln 10) and 1/x; my_log(x) is
\* the power of e, my_log(x, 10) the power of 10 and my_log(x, b) the power
\* of b that gives x.
C12_LogNamesKeepTheirMeaning ==
    /\ (pc = "Evaluated" /\ Head(input_expr) = "log") =>
          /\ Raise(Ten, result.f_val) = guess
          /\ Mul(Mul(result.fprime_val, guess), NaturalLog(Ten)) = Product(1, 1, 0, 0, 0)
    /\ (pc = "Evaluated" /\ Head(input_expr) = "ln") =>
          /\ Raise(Euler, result.f_val) = guess
          /\ Mul(result.fprime_val, guess) = Product(1, 1, 0, 0, 0)
    /\ pc = "Logged" =>
          Raise(IF result.base = NoBase THEN Euler ELSE result.base, result.value) = result.x

\* log x was evaluated at 1000 and gave 3
C12_Witness ==
    /\ pc = "Evaluated"
    /\ input_expr = <<"log", "x">>
    /\ guess = Product(1, 1, 3, 0, 0)
    /\ result.f_val = Product(3, 1, 0, 0, 0)

=============================================================================
